---- MODULE Spec2Model ----
(***************************************************************************)
(* A model of the tunnel-runner game: the lane/surface coordinate model    *)
(* and keyboard controls of src/src/hooks/useGameControls.ts and the       *)
(* segment generator, timers and per-frame loop of                         *)
(* src/src/components/Game2D.tsx.                                          *)
(*                                                                         *)
(* Numbers.  The program computes with IEEE doubles; the model uses exact  *)
(* fixed-point integers:                                                   *)
(*   time           in thirds of a second      (delta = d/3 s)             *)
(*   positions      in 1/36 of a world unit    (PosUnit)                   *)
(*   velocities     in 1/3 of a unit per second                            *)
(*   scroll         in 1/6 of a world unit     (ScrollUnit)                *)
(*   forward speed  in 1/2 of a unit per second                            *)
(*   camera angle   in 1/16 of a quarter turn  (QuarterTurn)               *)
(*   rotation progress in thirds                                           *)
(***************************************************************************)
EXTENDS Integers, Sequences, FiniteSets, TLC

(***************************************************************************)
(* Program constants.                                                      *)
(***************************************************************************)
LANES_PER_SURFACE == 5
TOTAL_LANES == 4 * LANES_PER_SURFACE

Surfaces == {"floor", "rightWall", "ceiling", "leftWall"}

(***************************************************************************)
(* Bounds of the model.                                                    *)
(***************************************************************************)
MaxGlobalLane == 60

(***************************************************************************)
(* JavaScript's % operator: the remainder takes the sign of the dividend.  *)
(***************************************************************************)
JsRem(a, b) == IF a >= 0 THEN a % b ELSE -((-a) % b)

VARIABLES
    laneIn,      \* the globalLane argument handed to getSurfaceAndLocalLane
    laneOut,     \* the {surface, localLane} it returned
    laneBack,    \* getGlobalLane of that pair
    lanePc       \* "in" -> "split" -> "joined"

laneVars == <<laneIn, laneOut, laneBack, lanePc>>

\* Mutant: the bands of Ceiling and LeftWall map the local index directly.
SurfaceOfBandDirect(normalizedLane) ==
    IF normalizedLane < LANES_PER_SURFACE THEN
        [surface |-> "floor",
         localLane |-> JsRem(normalizedLane, LANES_PER_SURFACE)]
    ELSE IF normalizedLane < 2 * LANES_PER_SURFACE THEN
        [surface |-> "rightWall",
         localLane |-> JsRem(normalizedLane, LANES_PER_SURFACE)]
    ELSE IF normalizedLane < 3 * LANES_PER_SURFACE THEN
        [surface |-> "ceiling",
         localLane |-> JsRem(normalizedLane, LANES_PER_SURFACE)]
    ELSE
        [surface |-> "leftWall",
         localLane |-> JsRem(normalizedLane, LANES_PER_SURFACE)]

(***************************************************************************)
(* getSurfaceAndLocalLane, useGameControls.ts:96-123.                      *)
(***************************************************************************)
SurfaceOfBand(normalizedLane) ==
    IF normalizedLane < LANES_PER_SURFACE THEN
        [surface |-> "floor",
         localLane |-> JsRem(normalizedLane, LANES_PER_SURFACE)]
    ELSE IF normalizedLane < 2 * LANES_PER_SURFACE THEN
        [surface |-> "rightWall",
         localLane |-> JsRem(normalizedLane, LANES_PER_SURFACE)]
    ELSE IF normalizedLane < 3 * LANES_PER_SURFACE THEN
        [surface |-> "ceiling",
         localLane |-> LANES_PER_SURFACE - 1 - JsRem(normalizedLane, LANES_PER_SURFACE)]
    ELSE
        [surface |-> "leftWall",
         localLane |-> LANES_PER_SURFACE - 1 - JsRem(normalizedLane, LANES_PER_SURFACE)]

\* Mutant: the lane is normalised with a single JavaScript remainder.
NormalizeLaneOnce(globalLane) == JsRem(globalLane, TOTAL_LANES)

NormalizeLane(globalLane) ==
    JsRem(JsRem(globalLane, TOTAL_LANES) + TOTAL_LANES, TOTAL_LANES)

getSurfaceAndLocalLane(globalLane) == SurfaceOfBand(NormalizeLane(globalLane))

(***************************************************************************)
(* getGlobalLane, useGameControls.ts:128-153.                              *)
(***************************************************************************)
getGlobalLane(surface, localLane) ==
    CASE surface = "floor"     -> localLane
      [] surface = "rightWall" -> LANES_PER_SURFACE + localLane
      [] surface = "ceiling"   ->
            2 * LANES_PER_SURFACE + (LANES_PER_SURFACE - 1 - localLane)
      [] surface = "leftWall"  ->
            3 * LANES_PER_SURFACE + (LANES_PER_SURFACE - 1 - localLane)
      [] OTHER                 -> 0

(***************************************************************************)
(* The coordinate model on its own: any integer lane is split and joined.  *)
(***************************************************************************)
LaneInit ==
    /\ laneIn \in (-MaxGlobalLane)..MaxGlobalLane
    /\ laneOut = [surface |-> "floor", localLane |-> 0]
    /\ laneBack = 0
    /\ lanePc = "in"

LaneSplit ==
    /\ lanePc = "in"
    /\ laneOut' = getSurfaceAndLocalLane(laneIn)
    /\ lanePc' = "split"
    /\ UNCHANGED <<laneIn, laneBack>>

LaneJoin ==
    /\ lanePc = "split"
    /\ laneBack' = getGlobalLane(laneOut.surface, laneOut.localLane)
    /\ lanePc' = "joined"
    /\ UNCHANGED <<laneIn, laneOut>>

LaneIdle ==
    /\ laneIn = 0
    /\ laneOut = [surface |-> "floor", localLane |-> 0]
    /\ laneBack = 0
    /\ lanePc = "in"

(***************************************************************************)
(* Game configuration, Game2D.tsx:9-26.                                    *)
(***************************************************************************)
SEGMENT_LENGTH == 10
VISIBLE_SEGMENTS == 5
EXTENSION_THRESHOLD == 40
LANE_COUNT == 5
TUNNEL_SIZE == 5

Lanes == 0..(LANE_COUNT - 1)

(***************************************************************************)
(* Bounds of the generator's inputs.                                       *)
(***************************************************************************)
MaxGenSegment == 2
MaxOffset == 5

\* Start rows the row generator is tried on (multiples of SEGMENT_LENGTH).
GenStartChoices == {0, 10, 30, 80, 150}

AllTrue == [x \in Lanes |-> TRUE]
AllFalse == [x \in Lanes |-> FALSE]

VARIABLES
    genStartZ,   \* startZ of the segment being generated
    genIndex,    \* its segmentIndex (generatedSegmentsCount at the call)
    genZ,        \* the relative row z of the loop iteration
    genOff,      \* Math.floor(surfaceSeeds[s] % 10), per surface
    genHit,      \* per surface and lane: Math.random() * noiseValue >= difficulty * 0.8
    genNoteDraw, \* the key-note draws of the iteration
    genRow,      \* the exists flags of the row's tiles, per surface and lane
    genNotes,    \* the key notes the iteration pushed
    genPc        \* "in" -> "row"

genVars == <<genStartZ, genIndex, genZ, genOff, genHit, genNoteDraw, genRow,
             genNotes, genPc>>

(***************************************************************************)
(* shouldTileExist, Game2D.tsx:365-421.  ctx carries what the closure      *)
(* reads: segmentIndex, absoluteZ, the floored offsets and the outcomes of *)
(* the random comparison of line 420.  Where line 420 is reached the       *)
(* difficulty is positive and below the largest product, so the comparison *)
(* can go either way: ctx.hit is a free input.                             *)
(***************************************************************************)
shouldTileExist(surface, x, z, ctx) ==
    LET absoluteZ == ctx.absoluteZ
        offset == ctx.off[surface]
    IN
    IF ctx.segmentIndex = 0 /\ z < 15 THEN TRUE
    ELSE IF JsRem(absoluteZ, 5) = 0 THEN
        IF surface = "floor"
        THEN JsRem(x + offset, 2) # 0
        ELSE JsRem(x + offset, 3) # 0
    ELSE IF JsRem(absoluteZ, 15) = 0 THEN
        CASE surface = "floor"     -> x = 2 \/ x = 1 \/ x = 3
          [] surface = "ceiling"   -> x = 1 \/ x = 3 \/ x = 0
          [] surface = "leftWall"  -> x = 0 \/ x = 4 \/ x = 2
          [] surface = "rightWall" -> JsRem(x, 2) = 0 \/ x = 1
    ELSE IF JsRem(absoluteZ, 40) = 0 /\ absoluteZ > 50 THEN
        IF surface = "floor" THEN JsRem(x + (absoluteZ \div 10), 3) # 1
        ELSE IF surface = "ceiling" THEN JsRem(x + (absoluteZ \div 10) + 1, 3) # 0
        ELSE JsRem(x + offset + (absoluteZ \div 5), 3) # 2
    ELSE IF JsRem(absoluteZ, 75) = 0 /\ absoluteZ > 75 THEN
        CASE surface = "floor"     -> x = 0 \/ x = 4 \/ x = 2
          [] surface = "ceiling"   -> x = 2 \/ x = 1
          [] surface = "leftWall"  -> x = 1 \/ x = 3 \/ x = 2
          [] surface = "rightWall" -> JsRem(x, 2) = 0 \/ x = 1
    ELSE ctx.hit[surface][x]

(***************************************************************************)
(* The floor repair of Game2D.tsx:428-438: the tile is forced to exist     *)
(* when the row already holds totalLanes - 2 gaps.                         *)
(***************************************************************************)
\* Mutant: the repair only starts at totalLanes - 1 gaps.
FloorRepairLate(floorTileExists, existingGapsInRow) ==
    IF ~floorTileExists /\ existingGapsInRow >= LANE_COUNT - 1
    THEN TRUE ELSE floorTileExists

FloorRepair(floorTileExists, existingGapsInRow) ==
    IF ~floorTileExists /\ existingGapsInRow >= LANE_COUNT - 2
    THEN TRUE ELSE floorTileExists

(***************************************************************************)
(* The floor tiles of one row, lanes 0..n-1, as the loop of                *)
(* Game2D.tsx:424-452 pushes them: each tile sees the gaps already pushed  *)
(* for its row.                                                            *)
(***************************************************************************)
RECURSIVE FloorTiles(_, _, _)
FloorTiles(n, z, ctx) ==
    IF n = 0 THEN <<>>
    ELSE LET before == FloorTiles(n - 1, z, ctx)
             existingGapsInRow ==
                 Cardinality({i \in 1..Len(before) : ~before[i]})
         IN Append(before,
                   FloorRepair(shouldTileExist("floor", n - 1, z, ctx),
                               existingGapsInRow))

(***************************************************************************)
(* The exists flag of every tile of row z, Game2D.tsx:423-501.             *)
(***************************************************************************)
RowTiles(z, ctx) ==
    [s \in Surfaces |->
        [x \in Lanes |->
            IF s = "floor" THEN FloorTiles(LANE_COUNT, z, ctx)[x + 1]
            ELSE shouldTileExist(s, x, z, ctx)]]

(***************************************************************************)
(* The key notes of one loop iteration, Game2D.tsx:273-308.  draw.emit is  *)
(* Math.random() < KEY_NOTE_CHANCE; a note is a surface, a lane and the    *)
(* absolute row (its position is derived from them).                       *)
(***************************************************************************)
NoteSurfaces == {"floor", "leftWall", "rightWall"}

RowNotes(absoluteZ, segmentIndex, draw) ==
    IF draw.emit /\ segmentIndex > 0
    THEN {[surface |-> draw.surface, lane |-> draw.lane, row |-> absoluteZ]}
    ELSE {}

NoNoteDraw == [emit |-> FALSE, surface |-> "floor", lane |-> 0]

GenNoteChoices ==
    {NoNoteDraw,
     [emit |-> TRUE, surface |-> "floor", lane |-> 2],
     [emit |-> TRUE, surface |-> "leftWall", lane |-> 0]}

GenContext ==
    [segmentIndex |-> genIndex, absoluteZ |-> genStartZ + genZ,
     off |-> genOff, hit |-> genHit]

(***************************************************************************)
(* The generator on its own: one iteration of the row loop, for any draws. *)
(***************************************************************************)
GenInit ==
    /\ genStartZ \in GenStartChoices
    /\ genIndex \in 0..MaxGenSegment
    /\ genZ \in 0..(SEGMENT_LENGTH - 1)
    /\ \E o \in 0..MaxOffset : genOff = [s \in Surfaces |-> o]
    /\ \E f \in [Lanes -> BOOLEAN], o \in {AllTrue, AllFalse} :
          genHit = [s \in Surfaces |-> IF s = "floor" THEN f ELSE o]
    /\ genNoteDraw \in GenNoteChoices
    /\ genRow = [s \in Surfaces |-> AllTrue]
    /\ genNotes = {}
    /\ genPc = "in"

GenerateRow ==
    /\ genPc = "in"
    /\ genRow' = RowTiles(genZ, GenContext)
    /\ genNotes' = RowNotes(genStartZ + genZ, genIndex, genNoteDraw)
    /\ genPc' = "row"
    /\ UNCHANGED <<genStartZ, genIndex, genZ, genOff, genHit, genNoteDraw>>

GenIdle ==
    /\ genStartZ = 0
    /\ genIndex = 0
    /\ genZ = 0
    /\ genOff = [s \in Surfaces |-> 0]
    /\ genHit = [s \in Surfaces |-> AllTrue]
    /\ genNoteDraw = NoNoteDraw
    /\ genRow = [s \in Surfaces |-> AllTrue]
    /\ genNotes = {}
    /\ genPc = "in"

(***************************************************************************)
(* Units of the fixed-point numbers.                                       *)
(***************************************************************************)
PosUnit == 36
ScrollUnit == 6
QuarterTurn == 16

(***************************************************************************)
(* Game configuration, Game2D.tsx:9-26, in the model's units.              *)
(***************************************************************************)
INITIAL_MOVE_SPEED == 8    \* 4 units per second, in halves
SPEED_INCREASE == 1        \* 0.5 units per second, in halves
BOOST_AMOUNT == 6          \* 3 units per second, in halves
SIDE_SPEED == 8
JUMP_FORCE == 10
GRAVITY == 25
BALL_RADIUS == 9           \* 0.25 units, in 1/36
TILE_SIZE == 36            \* 1 unit, in 1/36
COLOR_CHANGE_INTERVAL == 4
COLOR_SCHEMES_LENGTH == 7

(***************************************************************************)
(* Bounds of the game model.                                               *)
(***************************************************************************)
MaxScroll == 20            \* frames stop beyond this scroll distance
MaxControlsScroll == 24    \* the same, where only the movement keys are pressed
MaxRestarts == 1           \* restarts per run of the model
MaxTurns == 4              \* the camera target stays within this many quarter turns
MaxRandomSegments == 2     \* segments 1..MaxRandomSegments draw their tiles freely
MaxClamp == 3              \* clamp is called on the integers -MaxClamp..MaxClamp
MaxLongScroll == 44        \* frames of the long run stop beyond this scroll distance

VARIABLES
    \* React state of Game2D (Game2D.tsx:100-138)
    gameState, score, currentLane, currentSurface, isFallingThroughGap,
    tunnelSegments, keyNotes, isInvincible, collectionEffect,
    \* refs of Game2D (Game2D.tsx:105-132)
    isDebugMode, currentSpeed, lastColorIndex, isBoostActive, canBoost,
    nextSegmentZ, generatedSegmentsCount,
    playerPos, playerVelocity, isJumping, isMoving, targetX, targetY,
    cameraRotation, targetCameraRotation, rotationProgress, tunnelPosition,
    \* collectionEffect is the empty set for null, else the set of the one
    \* note whose effect is shown;
    \* timers are the pending setTimeout callbacks: records [kind, epoch]
    timers,
    \* history: restarts so far, and the surfaces entered by consecutive
    \* transitions of the same direction
    restarts, trail, trailDir

stateVars == <<gameState, score, currentLane, currentSurface, isFallingThroughGap,
               tunnelSegments, keyNotes, isInvincible, collectionEffect>>
speedVars == <<isDebugMode, currentSpeed, lastColorIndex, isBoostActive, canBoost>>
segmentVars == <<nextSegmentZ, generatedSegmentsCount>>
playerVars == <<playerPos, playerVelocity, isJumping, isMoving, targetX, targetY>>
cameraVars == <<cameraRotation, targetCameraRotation, rotationProgress>>
historyVars == <<restarts, trail, trailDir>>

gameVars == <<stateVars, speedVars, segmentVars, playerVars, cameraVars,
              tunnelPosition, timers, historyVars>>

(***************************************************************************)
(* The frame callback reads tunnelSegments through the closure of the last *)
(* render (Game2D.tsx:582-584, 527-579).  staleSegments is the empty set   *)
(* when that render is up to date, else the set of the one list the        *)
(* callback still sees while a re-render is pending.                       *)
(***************************************************************************)
VARIABLES staleSegments

renderVars == <<staleSegments>>

RenderIdle == staleSegments = {}

RenderedSegments ==
    IF staleSegments = {} THEN tunnelSegments
    ELSE CHOOSE segments \in staleSegments : TRUE

(***************************************************************************)
(* One call of clamp, utils/math.ts:19-21: its arguments, its result and   *)
(* whether it has returned.                                                *)
(***************************************************************************)
VARIABLES clampValue, clampMin, clampMax, clampOut, clampPc

mathVars == <<clampValue, clampMin, clampMax, clampOut, clampPc>>

vars == <<laneVars, genVars, mathVars, renderVars, gameVars>>

Abs(n) == IF n < 0 THEN -n ELSE n
Sign(n) == IF n < 0 THEN -1 ELSE IF n > 0 THEN 1 ELSE 0
Min(a, b) == IF a <= b THEN a ELSE b
Max(a, b) == IF a >= b THEN a ELSE b

(***************************************************************************)
(* clamp, utils/math.ts:19-21, on the integers of -MaxClamp..MaxClamp.     *)
(***************************************************************************)
\* Mutant: Math.min and Math.max are exchanged.
clampInsideOut(value, min, max) == Min(min, Max(max, value))

clamp(value, min, max) == Max(min, Min(max, value))

ClampInputs == (-MaxClamp)..MaxClamp

MathInit ==
    /\ clampValue \in ClampInputs
    /\ clampMin \in ClampInputs
    /\ clampMax \in ClampInputs
    /\ clampOut = 0
    /\ clampPc = "in"

ClampCall ==
    /\ clampPc = "in"
    /\ clampOut' = clamp(clampValue, clampMin, clampMax)
    /\ clampPc' = "out"
    /\ UNCHANGED <<clampValue, clampMin, clampMax>>

ClampReturn ==
    /\ clampPc = "out"
    /\ clampPc' = "in"
    /\ clampOut' = 0
    /\ \E value \in ClampInputs, min \in ClampInputs, max \in ClampInputs :
          /\ clampValue' = value
          /\ clampMin' = min
          /\ clampMax' = max

MathIdle ==
    /\ clampValue = 0
    /\ clampMin = 0
    /\ clampMax = 0
    /\ clampOut = 0
    /\ clampPc = "in"

(***************************************************************************)
(* getLanePosition, Game2D.tsx:69-72.                                      *)
(***************************************************************************)
getLanePosition(lane, totalLanes) ==
    LET laneWidth == (TUNNEL_SIZE * PosUnit) \div totalLanes
    IN -((TUNNEL_SIZE * PosUnit) \div 2) + laneWidth \div 2 + lane * laneWidth

(***************************************************************************)
(* getGravityDirection, useGameControls.ts:156-169.                        *)
(***************************************************************************)
getGravityDirection(surface) ==
    CASE surface = "floor"     -> [x |-> 0, y |-> -1]
      [] surface = "ceiling"   -> [x |-> 0, y |-> 1]
      [] surface = "leftWall"  -> [x |-> -1, y |-> 0]
      [] surface = "rightWall" -> [x |-> 1, y |-> 0]
      [] OTHER                 -> [x |-> 0, y |-> -1]

(***************************************************************************)
(* The surface level and collision axis of a surface, Game2D.tsx:775-795   *)
(* (the same levels as useGameControls.ts:268-281).                        *)
(***************************************************************************)
surfaceLevel(surface) ==
    IF surface \in {"floor", "leftWall"}
    THEN -((TUNNEL_SIZE * PosUnit) \div 2) + BALL_RADIUS
    ELSE (TUNNEL_SIZE * PosUnit) \div 2 - BALL_RADIUS

collisionAxis(surface) == IF surface \in {"floor", "ceiling"} THEN "y" ELSE "x"

(***************************************************************************)
(* What the random draws of one generateTunnelSegment call decide: the     *)
(* floored offsets, the outcome of the comparison of line 420 (here the    *)
(* same for every row of the segment) and the rows that emit a key note.   *)
(* Three outcomes are followed, each under a name.                         *)
(***************************************************************************)
SolidDraw ==
    [off |-> [s \in Surfaces |-> 1], hit |-> [s \in Surfaces |-> AllTrue],
     notes |-> {}]

GapDraw ==
    [off |-> [s \in Surfaces |-> 0], hit |-> [s \in Surfaces |-> AllFalse],
     notes |-> {}]

NoteDraw ==
    [off |-> [s \in Surfaces |-> 1], hit |-> [s \in Surfaces |-> AllTrue],
     notes |-> {[z |-> 2, surface |-> "floor", lane |-> 2]}]

\* Even offsets with every comparison in favour of the tile: gaps in the
\* every-fifth rows only.
EvenDraw ==
    [off |-> [s \in Surfaces |-> 0], hit |-> [s \in Surfaces |-> AllTrue],
     notes |-> {}]

\* The gaps of GapDraw with a key note above the first row of the segment,
\* in the lane the player starts in.
BaitDraw ==
    [off |-> [s \in Surfaces |-> 0], hit |-> [s \in Surfaces |-> AllFalse],
     notes |-> {[z |-> 0, surface |-> "floor", lane |-> 2]}]

Draw(name) ==
    CASE name = "gap"  -> GapDraw
      [] name = "note" -> NoteDraw
      [] name = "even" -> EvenDraw
      [] name = "bait" -> BaitDraw
      [] OTHER         -> SolidDraw

DrawChoices(segmentIndex) ==
    IF segmentIndex >= 1 /\ segmentIndex <= MaxRandomSegments
    THEN {"solid", "gap", "note"}
    ELSE {"solid"}

(***************************************************************************)
(* generateTunnelSegment, Game2D.tsx:253-513.  The tiles of the segment    *)
(* are a function of startZ, segmentIndex and the draws: the segment keeps *)
(* these, and SegmentTile computes a tile's exists flag from them.         *)
(***************************************************************************)
generateTunnelSegment(startZ, segmentIndex, draw) ==
    [startZ |-> startZ, endZ |-> startZ + SEGMENT_LENGTH,
     segmentIndex |-> segmentIndex, draw |-> draw]

SegmentContext(segment, z) ==
    [segmentIndex |-> segment.segmentIndex, absoluteZ |-> segment.startZ + z,
     off |-> Draw(segment.draw).off, hit |-> Draw(segment.draw).hit]

SegmentTile(segment, surface, x, z) ==
    RowTiles(z, SegmentContext(segment, z))[surface][x]

\* The key notes the call adds (setKeyNotes, Game2D.tsx:505).
SegmentNotes(startZ, segmentIndex, draw) ==
    UNION {RowNotes(startZ + n.z, segmentIndex,
                    [emit |-> TRUE, surface |-> n.surface, lane |-> n.lane])
           : n \in Draw(draw).notes}

(***************************************************************************)
(* The state after the first render: Game2D.tsx:100-139, the initial       *)
(* segments of lines 515-524 and the mesh position of line 1175.           *)
(***************************************************************************)
RECURSIVE InitialSegments(_, _)
InitialSegments(n, draws) ==
    IF n = 0 THEN <<>>
    ELSE Append(InitialSegments(n - 1, draws),
                generateTunnelSegment((n - 1) * SEGMENT_LENGTH, n - 1, draws[n]))

RECURSIVE InitialNotes(_, _)
InitialNotes(n, draws) ==
    IF n = 0 THEN {}
    ELSE InitialNotes(n - 1, draws)
         \cup SegmentNotes((n - 1) * SEGMENT_LENGTH, n - 1, draws[n])

InitialDraws ==
    {ds \in [1..VISIBLE_SEGMENTS -> {"solid", "gap", "note"}] :
        \A i \in 1..VISIBLE_SEGMENTS : ds[i] \in DrawChoices(i - 1)}

StartPosition ==
    [x |-> getLanePosition(2, LANE_COUNT),
     y |-> -((TUNNEL_SIZE * PosUnit) \div 2) + BALL_RADIUS,
     z |-> 0]

GameStart(ds) ==
    /\ gameState = "start"
    /\ score = 0
    /\ currentLane = 2
    /\ currentSurface = "floor"
    /\ isFallingThroughGap = FALSE
    /\ tunnelSegments = InitialSegments(VISIBLE_SEGMENTS, ds)
    /\ keyNotes = InitialNotes(VISIBLE_SEGMENTS, ds)
    /\ isInvincible = FALSE
    /\ collectionEffect = {}
    /\ isDebugMode = FALSE
    /\ currentSpeed = INITIAL_MOVE_SPEED
    /\ lastColorIndex = 0
    /\ isBoostActive = FALSE
    /\ canBoost = TRUE
    /\ nextSegmentZ = VISIBLE_SEGMENTS * SEGMENT_LENGTH
    /\ generatedSegmentsCount = VISIBLE_SEGMENTS
    /\ playerPos = StartPosition
    /\ playerVelocity = [x |-> 0, y |-> 0]
    /\ isJumping = FALSE
    /\ isMoving = FALSE
    /\ targetX = getLanePosition(2, LANE_COUNT)
    /\ targetY = 0
    /\ cameraRotation = 0
    /\ targetCameraRotation = 0
    /\ rotationProgress = 0
    /\ tunnelPosition = 0
    /\ timers = {}
    /\ restarts = 0
    /\ trail = <<"floor">>
    /\ trailDir = "none"

GameInit == \E ds \in InitialDraws : GameStart(ds)

\* The game is not mounted: the state of the first render, with solid draws.
GameIdle == GameStart([i \in 1..VISIBLE_SEGMENTS |-> "solid"])

(***************************************************************************)
(* The effects keyed on gameState run their cleanup when it changes:       *)
(* Game2D.tsx:233-238 clears the boost timeout, Game2D.tsx:879-884 the     *)
(* invincibility timer.  The timers they do not hold stay pending.         *)
(***************************************************************************)
AfterGameStateChange(ts) ==
    {t \in ts : t.kind \notin {"boost", "invincibility"}}

(***************************************************************************)
(* setTargetPositionForLane, useGameControls.ts:200-213.                   *)
(***************************************************************************)
\* Mutant: the target along x is left where it was.
TargetXStale(surface, localLane, tx) == tx

TargetXForLane(surface, localLane, tx) ==
    IF surface \in {"floor", "ceiling"}
    THEN getLanePosition(localLane, LANES_PER_SURFACE) ELSE tx

TargetYForLane(surface, localLane, ty) ==
    IF surface \in {"leftWall", "rightWall"}
    THEN getLanePosition(localLane, LANES_PER_SURFACE) ELSE ty

(***************************************************************************)
(* rotateCameraRelative, useGameControls.ts:216-233: the new target angle. *)
(***************************************************************************)
\* Mutant: both directions turn the camera the same way.
rotateCameraOneWay(currentRotation, direction) == currentRotation - QuarterTurn

rotateCameraRelative(currentRotation, direction) ==
    currentRotation + (IF direction = "right" THEN QuarterTurn ELSE -QuarterTurn)

(***************************************************************************)
(* The lane a movement key asks for, useGameControls.ts:337-345.           *)
(***************************************************************************)
\* Mutant: the right key decrements the global lane.
NextLaneSwapped(currentGlobalLane, direction) ==
    JsRem(currentGlobalLane - 1 + TOTAL_LANES, TOTAL_LANES)

NextGlobalLane(currentGlobalLane, direction) ==
    IF direction = "right"
    THEN JsRem(currentGlobalLane + 1, TOTAL_LANES)
    ELSE JsRem(currentGlobalLane - 1 + TOTAL_LANES, TOTAL_LANES)

(***************************************************************************)
(* The player's position on the new surface, useGameControls.ts:268-281.   *)
(***************************************************************************)
PositionOnSurface(surface, pos) ==
    IF collisionAxis(surface) = "y"
    THEN [pos EXCEPT !.y = surfaceLevel(surface)]
    ELSE [pos EXCEPT !.x = surfaceLevel(surface)]

(***************************************************************************)
(* moveToGlobalLane, useGameControls.ts:236-299.  The caller has checked   *)
(* isFallingThroughGap (line 312), so the check of line 240 passes.        *)
(***************************************************************************)
\* Mutant: a jump does not hold back a surface transition.
TransitionAlways == FALSE

\* The return of useGameControls.ts:254-258: no transition while jumping.
TransitionRefused == isJumping

moveToGlobalLane(globalLane, direction) ==
    LET target == getSurfaceAndLocalLane(globalLane)
        surface == target.surface
        localLane == target.localLane
    IN
    IF surface # currentSurface THEN
        IF TransitionRefused THEN
            UNCHANGED <<currentSurface, currentLane, playerPos, playerVelocity,
                        isJumping, isMoving, targetX, targetY,
                        targetCameraRotation, rotationProgress, trail, trailDir>>
        ELSE
            /\ Abs(rotateCameraRelative(targetCameraRotation, direction))
                  <= MaxTurns * QuarterTurn
            /\ currentSurface' = surface
            /\ currentLane' = localLane
            /\ targetCameraRotation' =
                  rotateCameraRelative(targetCameraRotation, direction)
            /\ rotationProgress' = 3
            /\ playerPos' = PositionOnSurface(surface, playerPos)
            /\ targetX' = TargetXForLane(surface, localLane, targetX)
            /\ targetY' = TargetYForLane(surface, localLane, targetY)
            /\ playerVelocity' = [x |-> 0, y |-> 0]
            /\ isJumping' = FALSE
            /\ isMoving' = TRUE
            /\ trail' = IF trailDir \in {direction, "none"} /\ Len(trail) < 5
                        THEN Append(trail, surface)
                        ELSE <<currentSurface, surface>>
            /\ trailDir' = direction
    ELSE
        /\ currentLane' = localLane
        /\ targetX' = TargetXForLane(surface, localLane, targetX)
        /\ targetY' = TargetYForLane(surface, localLane, targetY)
        /\ isMoving' = TRUE
        /\ UNCHANGED <<currentSurface, playerPos, playerVelocity, isJumping,
                       targetCameraRotation, rotationProgress, trail, trailDir>>

(***************************************************************************)
(* The jump of useGameControls.ts:347-360.                                 *)
(***************************************************************************)
\* Mutant: the jump pushes along gravity.
JumpAlongGravity(surface) ==
    [x |-> getGravityDirection(surface).x * JUMP_FORCE * 3,
     y |-> getGravityDirection(surface).y * JUMP_FORCE * 3]

JumpVelocity(surface) ==
    [x |-> -getGravityDirection(surface).x * JUMP_FORCE * 3,
     y |-> -getGravityDirection(surface).y * JUMP_FORCE * 3]

(***************************************************************************)
(* The boost of Game2D.tsx:210-229, run by the same key-down event.        *)
(***************************************************************************)
BoostAccepted(k) ==
    gameState = "playing" /\ k = "ArrowUp" /\ canBoost /\ ~isBoostActive

BoostKeyDown(k, ts) ==
    IF BoostAccepted(k)
    THEN /\ isBoostActive' = TRUE
         /\ canBoost' = FALSE
         /\ timers' = {t \in ts : t.kind # "boost"}
                      \cup {[kind |-> "boost", epoch |-> restarts]}
    ELSE /\ UNCHANGED <<isBoostActive, canBoost>>
         /\ timers' = ts

Keys == {"ArrowLeft", "ArrowRight", " ", "ArrowUp", "5", "r"}

DirectionOf(k) == IF k = "ArrowRight" THEN "right" ELSE "left"

(***************************************************************************)
(* A key-down event: handleKeyDown of useGameControls.ts:303-361, the      *)
(* debug handler of Game2D.tsx:198-202 and the boost handler of            *)
(* Game2D.tsx:210-229, each with the state of the last render.             *)
(***************************************************************************)
\* Mutant: the key-down that starts the game is handled as a control as well.
ControlsReachedFromStart ==
    gameState \in {"start", "playing"} /\ ~isFallingThroughGap /\ ~isMoving

\* The key-down gets past the returns of useGameControls.ts:304-334: the game
\* is Playing, the player is not falling through a gap and no move is in
\* flight.
ControlsReached ==
    gameState = "playing" /\ ~isFallingThroughGap /\ ~isMoving

KeyDown(k) ==
    /\ isDebugMode' = (isDebugMode \/ (gameState = "start" /\ k = "5"))
    /\ UNCHANGED <<score, isFallingThroughGap, tunnelSegments, keyNotes,
                   isInvincible, collectionEffect, currentSpeed, lastColorIndex,
                   nextSegmentZ, generatedSegmentsCount, cameraRotation,
                   tunnelPosition, restarts>>
    /\ IF gameState = "start" THEN
          /\ gameState' = "playing"
          /\ timers' = AfterGameStateChange(timers)
          /\ UNCHANGED <<isBoostActive, canBoost>>
       ELSE
          /\ UNCHANGED gameState
          /\ BoostKeyDown(k, timers)
    /\ IF ~ControlsReached THEN
          UNCHANGED <<currentLane, currentSurface, playerVars,
                      targetCameraRotation, rotationProgress, trail, trailDir>>
       ELSE IF k \in {"ArrowLeft", "ArrowRight"} THEN
          moveToGlobalLane(
              NextGlobalLane(getGlobalLane(currentSurface, currentLane),
                             DirectionOf(k)),
              DirectionOf(k))
       ELSE IF k = " " /\ ~isJumping THEN
          /\ isJumping' = TRUE
          /\ playerVelocity' = JumpVelocity(currentSurface)
          /\ UNCHANGED <<currentLane, currentSurface, playerPos, isMoving,
                         targetX, targetY, targetCameraRotation,
                         rotationProgress, trail, trailDir>>
       ELSE
          UNCHANGED <<currentLane, currentSurface, playerVars,
                      targetCameraRotation, rotationProgress, trail, trailDir>>

(***************************************************************************)
(* A key-up event: handleKeyUp of useGameControls.ts:363-403, and the      *)
(* effect cleanups the change of gameState runs.                           *)
(***************************************************************************)
KeyUp(k) ==
    IF k = "r" /\ gameState = "gameOver" THEN
        /\ restarts < MaxRestarts
        /\ gameState' = "playing"
        /\ score' = 0
        /\ currentSurface' = "floor"
        /\ currentLane' = 2
        /\ targetX' = TargetXForLane("floor", 2, targetX)
        /\ targetY' = TargetYForLane("floor", 2, targetY)
        /\ playerPos' = [x |-> getLanePosition(2, LANES_PER_SURFACE),
                         y |-> -((TUNNEL_SIZE * PosUnit) \div 2) + BALL_RADIUS,
                         z |-> 0]
        /\ tunnelPosition' = 0
        /\ targetCameraRotation' = 0
        /\ rotationProgress' = 0
        /\ isFallingThroughGap' = FALSE
        /\ playerVelocity' = [x |-> 0, y |-> 0]
        /\ isJumping' = FALSE
        /\ isMoving' = FALSE
        /\ timers' = AfterGameStateChange(timers)
        /\ restarts' = restarts + 1
        /\ trail' = <<"floor">>
        /\ trailDir' = "none"
        /\ UNCHANGED <<tunnelSegments, keyNotes, isInvincible, collectionEffect,
                       speedVars, segmentVars, cameraRotation>>
    ELSE UNCHANGED gameVars

(***************************************************************************)
(* A key note's position, Game2D.tsx:279-301, and the square of its        *)
(* distance to the player, Game2D.tsx:620-624, both in 1/36.               *)
(***************************************************************************)
NotePosition(note) ==
    LET half == (TUNNEL_SIZE * PosUnit) \div 2
        lane == getLanePosition(note.lane, LANE_COUNT)
    IN CASE note.surface = "floor" ->
              [x |-> lane, y |-> -half + PosUnit \div 2]
         [] note.surface = "leftWall" ->
              [x |-> -half + PosUnit \div 2, y |-> lane]
         [] OTHER ->
              [x |-> half - PosUnit \div 2, y |-> lane]

NoteDistanceSquared(note, pos, scroll) ==
    LET dx == NotePosition(note).x - pos.x
        dy == NotePosition(note).y - pos.y
        dz == (scroll - note.row * ScrollUnit) * (PosUnit \div ScrollUnit) - pos.z
    IN dx * dx + dy * dy + dz * dz

NoteCollected(note, pos, scroll) ==
    NoteDistanceSquared(note, pos, scroll) < (BALL_RADIUS * 4) * (BALL_RADIUS * 4)

(***************************************************************************)
(* isPlayerOnTile, Game2D.tsx:527-579.  A tile is <<i, z, x>>: segment i   *)
(* of the list, row z, lane x; find returns the first match in list order. *)
(***************************************************************************)
InPlane(surface, pos) == IF collisionAxis(surface) = "y" THEN pos.x ELSE pos.y

\* |tile.position - player| < TILE_SIZE / 2 in the surface plane (lines 541-561)
LaneMatches(x, surface, pos) ==
    2 * Abs(getLanePosition(x, LANE_COUNT) - InPlane(surface, pos)) < TILE_SIZE

\* Mutant: a tile reaches up to and including half a tile along the tunnel.
RowMatchesClosed(segment, z, pos, posZ) ==
    2 * Abs(-(z + segment.startZ) * PosUnit
            + posZ * (PosUnit \div ScrollUnit) - pos.z) <= TILE_SIZE

\* and along the tunnel: the tile is drawn at -(z + startZ) + tunnelPosition.
RowMatches(segment, z, pos, posZ) ==
    2 * Abs(-(z + segment.startZ) * PosUnit
            + posZ * (PosUnit \div ScrollUnit) - pos.z) < TILE_SIZE

MatchingTiles(segments, surface, pos, posZ) ==
    LET lanes == {x \in Lanes : LaneMatches(x, surface, pos)}
    IN UNION {{<<i, z, x>> :
                  z \in {r \in 0..(SEGMENT_LENGTH - 1) :
                             RowMatches(segments[i], r, pos, posZ)},
                  x \in lanes}
              : i \in 1..Len(segments)}

TileBefore(a, b) ==
    \/ a[1] < b[1]
    \/ a[1] = b[1] /\ a[2] < b[2]
    \/ a[1] = b[1] /\ a[2] = b[2] /\ a[3] <= b[3]

FoundTileExists(segments, surface, pos, posZ) ==
    LET found == MatchingTiles(segments, surface, pos, posZ)
    IN /\ found # {}
       /\ LET tile == CHOOSE a \in found : \A b \in found : TileBefore(a, b)
          IN SegmentTile(segments[tile[1]], surface, tile[3], tile[2])

\* Mutant: no tile is ever found under the player.
NeverOnTile(pos, posZ) == FALSE

\* Mutant: a falling player counts as standing on a tile.
OnTileWhileFalling(pos, posZ) ==
    IF isDebugMode \/ isInvincible THEN TRUE
    ELSE IF isFallingThroughGap THEN TRUE
    ELSE FoundTileExists(RenderedSegments, currentSurface, pos, posZ)

\* Mutant: invincibility does not stand in for a tile.
OnTileWhenMortal(pos, posZ) ==
    IF isDebugMode THEN TRUE
    ELSE IF isFallingThroughGap THEN FALSE
    ELSE FoundTileExists(RenderedSegments, currentSurface, pos, posZ)

isPlayerOnTile(pos, posZ) ==
    IF isDebugMode \/ isInvincible THEN TRUE
    ELSE IF isFallingThroughGap THEN FALSE
    ELSE FoundTileExists(RenderedSegments, currentSurface, pos, posZ)

(***************************************************************************)
(* checkAndAddSegment, Game2D.tsx:582-601.                                 *)
(***************************************************************************)
NeedsSegment(segments, playerZ) ==
    /\ Len(segments) > 0
    /\ playerZ > (segments[Len(segments)].endZ - EXTENSION_THRESHOLD) * ScrollUnit

KeepSegment(segment, playerZ) ==
    segment.endZ * ScrollUnit > playerZ - (SEGMENT_LENGTH * 2) * ScrollUnit

FilterSegments(segments, playerZ) ==
    SelectSeq(segments, LAMBDA segment : KeepSegment(segment, playerZ))

(***************************************************************************)
(* The easing of Game2D.tsx:696-699.  sin((1 - p) * PI / 2) in thousandths *)
(* for p = 0, 1/3, 2/3, 1, and the interpolation rounded to the angle      *)
(* unit; at p = 0 the factor is exactly 1.                                 *)
(***************************************************************************)
Ease(progress) ==
    CASE progress <= 0 -> 1000
      [] progress = 1  -> 866
      [] progress = 2  -> 500
      [] OTHER         -> 0

Interpolate(current, target, t) ==
    ((1000 - t) * current + t * target + 500) \div 1000

(***************************************************************************)
(* Parts of the frame callback, Game2D.tsx:604-864.                        *)
(***************************************************************************)
\* nearSurface, Game2D.tsx:718-728: |pos - level| < 0.2.
NearSurface(surface, pos) ==
    5 * Abs((IF collisionAxis(surface) = "y" THEN pos.y ELSE pos.x)
            - surfaceLevel(surface)) < PosUnit

\* Side movement, Game2D.tsx:736-764: <<position, isMoving>> after it.
SideMove(surface, pos, moving, d) ==
    LET step == SIDE_SPEED * d * (PosUnit \div 3)
        axisY == collisionAxis(surface) = "x"
        target == IF axisY THEN targetY ELSE targetX
        here == IF axisY THEN pos.y ELSE pos.x
        diff == target - here
        there == IF Abs(diff) <= step THEN target ELSE here + Sign(diff) * step
    IN IF ~moving THEN <<pos, FALSE>>
       ELSE <<IF axisY THEN [pos EXCEPT !.y = there] ELSE [pos EXCEPT !.x = there],
              ~(Abs(diff) <= step)>>

\* Is the player past the surface plane, Game2D.tsx:801-802 and 811-812.
PastSurface(surface, pos) ==
    CASE surface = "floor"     -> pos.y < surfaceLevel(surface)
      [] surface = "ceiling"   -> pos.y > surfaceLevel(surface)
      [] surface = "leftWall"  -> pos.x < surfaceLevel(surface)
      [] surface = "rightWall" -> pos.x > surfaceLevel(surface)

\* The collision of Game2D.tsx:798-820 applies.
\* Mutant: the collision ignores whether a tile was found.
CollidesAlways(onSurface, falling) == ~falling

Collides(onSurface, falling) == onSurface /\ ~falling

\* The re-pinning of Game2D.tsx:824-832 applies.
Sticks(jumping, moving, onSurface) == ~jumping /\ ~moving /\ onSurface

\* outOfBounds, Game2D.tsx:841-845.
\* Mutant: every position counts as out of bounds.
OutOfBoundsAlways(pos) == TRUE

OutOfBounds(pos) ==
    \/ pos.y < -(TUNNEL_SIZE * 2) * PosUnit
    \/ pos.y > (TUNNEL_SIZE * 2) * PosUnit
    \/ pos.x < -(TUNNEL_SIZE * 2) * PosUnit
    \/ pos.x > (TUNNEL_SIZE * 2) * PosUnit

\* The colour scheme of a scroll position, Game2D.tsx:667.
ColorIndex(scroll) ==
    JsRem(scroll \div (SEGMENT_LENGTH * COLOR_CHANGE_INTERVAL * ScrollUnit),
          COLOR_SCHEMES_LENGTH)

\* currentSpeed after the colour check of Game2D.tsx:668-671.
SpeedAfter ==
    IF ColorIndex(tunnelPosition) # lastColorIndex
    THEN currentSpeed + SPEED_INCREASE ELSE currentSpeed

\* Mutant: the tunnel scrolls backwards.
ScrollBack(d) == tunnelPosition - SpeedAfter * d

\* tunnelPosition after the scroll of Game2D.tsx:674-676.
ScrollAfter(d) ==
    tunnelPosition
    + (SpeedAfter + (IF isBoostActive THEN BOOST_AMOUNT ELSE 0)) * d

\* Mutant: the new segment starts where the rendered list ends.
StartAfterRendered(segments) == segments[Len(segments)].endZ

\* The start handed to generateTunnelSegment by checkAndAddSegment,
\* Game2D.tsx:589-590: the ref, whatever list the callback sees.
NextStart(segments) == nextSegmentZ

\* Mutant: only a finished game stops the frame.
FrameRunsUnlessOver == gameState # "gameOver"

\* The guards at the head of the frame callback, Game2D.tsx:605-607: it
\* returns when the game is over and simulates only while playing.
FrameRuns == gameState # "gameOver" /\ gameState = "playing"

(***************************************************************************)
(* One frame: the useFrame callback of Game2D.tsx:604-864 with delta = d/3 *)
(* seconds, and the draws of the segment it may generate.  React state     *)
(* (gameState, currentSurface, isFallingThroughGap, isInvincible,          *)
(* tunnelSegments, keyNotes) is read as of the last render; the refs are   *)
(* updated in place, in the order of the code.  The state changes and the  *)
(* effect cleanups they trigger are applied before the next event.  The    *)
(* updater handed to setKeyNotes runs when it is queued, with the player   *)
(* and scroll positions the frame started with; onSurface is the one call  *)
(* of isPlayerOnTile of line 715.                                          *)
(***************************************************************************)
Tick(d) ==
    IF ~FrameRuns THEN UNCHANGED gameVars
    ELSE
    /\ \E draw \in DrawChoices(generatedSegmentsCount),
          onSurface \in {isPlayerOnTile(playerPos, ScrollAfter(d))} :
       LET gravityDir == getGravityDirection(currentSurface)
           \* key note collection, lines 612-664
           collectedNotes ==
               {n \in keyNotes : NoteCollected(n, playerPos, tunnelPosition)}
           collected == collectedNotes # {}
           \* colour change and speed, lines 667-676
           currentColorIndex == ColorIndex(tunnelPosition)
           speed == SpeedAfter
           scroll == ScrollAfter(d)
           \* checkAndAddSegment, line 682
           extend == NeedsSegment(RenderedSegments, scroll)
           newSegment ==
               generateTunnelSegment(NextStart(RenderedSegments),
                                     generatedSegmentsCount, draw)
           \* camera rotation, lines 690-712
           rotating == rotationProgress > 0
           progress == rotationProgress - Min(d, rotationProgress)
           moving1 == IF rotating /\ progress <= 0 THEN FALSE ELSE isMoving
           \* gap detection, lines 715-733
           startsFalling ==
               ~onSurface /\ NearSurface(currentSurface, playerPos)
                          /\ ~isFallingThroughGap
           \* side movement, lines 736-764
           side == SideMove(currentSurface, playerPos, moving1, d)
           pos2 == side[1]
           moving2 == side[2]
           \* gravity, lines 767-772
           vel3 == [x |-> playerVelocity.x + gravityDir.x * GRAVITY * d,
                    y |-> playerVelocity.y + gravityDir.y * GRAVITY * d]
           pos3 == [pos2 EXCEPT !.x = pos2.x + vel3.x * d * (PosUnit \div 9),
                                !.y = pos2.y + vel3.y * d * (PosUnit \div 9)]
           \* collision, lines 798-820
           lands == Collides(onSurface, isFallingThroughGap)
                    /\ PastSurface(currentSurface, pos3)
           axis == collisionAxis(currentSurface)
           level == surfaceLevel(currentSurface)
           pos4 == IF ~lands THEN pos3
                   ELSE IF axis = "y" THEN [pos3 EXCEPT !.y = level]
                   ELSE [pos3 EXCEPT !.x = level]
           vel4 == IF ~lands THEN vel3
                   ELSE IF axis = "y" THEN [vel3 EXCEPT !.y = 0]
                   ELSE [vel3 EXCEPT !.x = 0]
           jumping4 == IF lands THEN FALSE ELSE isJumping
           \* sticking to the surface, lines 824-832
           sticks == Sticks(jumping4, moving2, onSurface)
           pos5 == IF ~sticks THEN pos4
                   ELSE IF axis = "y" THEN [pos4 EXCEPT !.y = level]
                   ELSE [pos4 EXCEPT !.x = level]
           vel5 == IF ~sticks THEN vel4
                   ELSE IF axis = "y" THEN [vel4 EXCEPT !.y = 0]
                   ELSE [vel4 EXCEPT !.x = 0]
           \* recovery and the out-of-bounds check, lines 835-850
           recovers == isFallingThroughGap /\ onSurface
           outOfBounds == OutOfBounds(pos5)
           timers1 ==
               IF collected
               THEN {t \in timers : t.kind # "invincibility"}
                    \cup {[kind |-> "effect", epoch |-> restarts],
                          [kind |-> "invincibility", epoch |-> restarts]}
               ELSE timers
       IN
       /\ keyNotes' = (keyNotes \ collectedNotes)
                      \cup (IF extend
                            THEN SegmentNotes(nextSegmentZ, generatedSegmentsCount, draw)
                            ELSE {})
       /\ collectionEffect' =
             IF collected THEN {CHOOSE n \in collectedNotes : TRUE}
             ELSE collectionEffect
       /\ isInvincible' = (isInvincible \/ collected)
       /\ currentSpeed' = speed
       /\ lastColorIndex' = currentColorIndex
       /\ tunnelPosition' = scroll
       /\ score' = scroll \div ScrollUnit
       /\ tunnelSegments' =
             IF extend
             THEN FilterSegments(Append(tunnelSegments, newSegment), scroll)
             ELSE tunnelSegments
       /\ nextSegmentZ' = IF extend THEN nextSegmentZ + SEGMENT_LENGTH
                          ELSE nextSegmentZ
       /\ generatedSegmentsCount' =
             IF extend THEN generatedSegmentsCount + 1 ELSE generatedSegmentsCount
       /\ rotationProgress' = progress
       /\ cameraRotation' =
             IF rotating
             THEN Interpolate(cameraRotation, targetCameraRotation, Ease(progress))
             ELSE cameraRotation
       /\ playerPos' = pos5
       /\ playerVelocity' = vel5
       /\ isJumping' = jumping4
       /\ isMoving' = moving2
       /\ isFallingThroughGap' =
             IF outOfBounds \/ recovers THEN FALSE
             ELSE IF startsFalling THEN TRUE
             ELSE isFallingThroughGap
       /\ gameState' = IF outOfBounds THEN "gameOver" ELSE gameState
       /\ timers' = IF outOfBounds THEN AfterGameStateChange(timers1) ELSE timers1
       /\ UNCHANGED <<currentLane, currentSurface, isDebugMode, isBoostActive,
                      canBoost, targetX, targetY, targetCameraRotation,
                      historyVars>>

(***************************************************************************)
(* The setTimeout callbacks: the boost expiry and its cool-down            *)
(* (Game2D.tsx:222-228), the collection-effect clear (Game2D.tsx:642-644)  *)
(* and the invincibility expiry (Game2D.tsx:656-660).  A callback runs     *)
(* once, at any time after it is set and before it is cleared.             *)
(***************************************************************************)
FireTimer(t) ==
    /\ t \in timers
    /\ UNCHANGED <<gameState, score, currentLane, currentSurface,
                   isFallingThroughGap, tunnelSegments, keyNotes, isDebugMode,
                   currentSpeed, lastColorIndex, segmentVars, playerVars,
                   cameraVars, tunnelPosition, historyVars>>
    /\ CASE t.kind = "boost" ->
              /\ isBoostActive' = FALSE
              /\ timers' = (timers \ {t})
                           \cup {[kind |-> "cooldown", epoch |-> restarts]}
              /\ UNCHANGED <<canBoost, isInvincible, collectionEffect>>
         [] t.kind = "cooldown" ->
              /\ canBoost' = TRUE
              /\ timers' = timers \ {t}
              /\ UNCHANGED <<isBoostActive, isInvincible, collectionEffect>>
         [] t.kind = "effect" ->
              /\ collectionEffect' = {}
              /\ timers' = timers \ {t}
              /\ UNCHANGED <<isBoostActive, canBoost, isInvincible>>
         [] OTHER ->
              /\ isInvincible' = FALSE
              /\ timers' = timers \ {t}
              /\ UNCHANGED <<isBoostActive, canBoost, collectionEffect>>

TimerKinds == {"boost", "cooldown", "effect", "invincibility"}

AllTimers == [kind : TimerKinds, epoch : 0..MaxRestarts]

(***************************************************************************)
(* Specifications.                                                         *)
(***************************************************************************)
\* The whole game: frames of one second, every key the handlers read.
DeltaChoices == {3}

DownKeys == {"ArrowLeft", "ArrowRight", " ", "ArrowUp", "5"}

UpKeys == {"r"}

Frame ==
    /\ tunnelPosition <= MaxScroll * ScrollUnit
    /\ \E d \in DeltaChoices : Tick(d)
    /\ UNCHANGED <<laneVars, genVars, mathVars, renderVars>>

KeyPressed == \E k \in DownKeys : KeyDown(k) /\ UNCHANGED <<laneVars, genVars, mathVars, renderVars>>

KeyReleased == \E k \in UpKeys : KeyUp(k) /\ UNCHANGED <<laneVars, genVars, mathVars, renderVars>>

TimerFired == \E t \in AllTimers : FireTimer(t) /\ UNCHANGED <<laneVars, genVars, mathVars, renderVars>>

Init == LaneIdle /\ GenIdle /\ MathIdle /\ RenderIdle /\ GameInit

Next == Frame \/ KeyPressed \/ KeyReleased \/ TimerFired

Spec == Init /\ [][Next]_vars

\* The movement keys alone, with frames of a third of a second, on a tunnel
\* whose random draws all came out solid (the patterned rows keep their gaps).
ControlKeys == {"ArrowLeft", "ArrowRight"}

ControlsFrame ==
    /\ tunnelPosition <= MaxControlsScroll * ScrollUnit
    /\ Tick(1)
    /\ UNCHANGED <<laneVars, genVars, mathVars, renderVars>>

ControlsKey == \E k \in ControlKeys : KeyDown(k) /\ UNCHANGED <<laneVars, genVars, mathVars, renderVars>>

ControlsNext == ControlsFrame \/ ControlsKey

ControlsInit == LaneIdle /\ GenIdle /\ MathIdle /\ RenderIdle /\ GameIdle

SpecControls == ControlsInit /\ [][ControlsNext]_vars

\* A game that is started and then left alone: one key-down in the start
\* state, then frames of one or three thirds of a second and the timers the
\* collected notes start, on every track the draws can give.
CoastKeys == {" ", "ArrowRight"}

CoastDeltas == {1, 3}

CoastStart ==
    /\ gameState = "start"
    /\ \E k \in CoastKeys : KeyDown(k)
    /\ UNCHANGED <<laneVars, genVars, mathVars, renderVars>>

CoastFrame ==
    /\ tunnelPosition <= MaxScroll * ScrollUnit
    /\ \E d \in CoastDeltas : Tick(d)
    /\ UNCHANGED <<laneVars, genVars, mathVars, renderVars>>

CoastTimer == \E t \in AllTimers : FireTimer(t) /\ UNCHANGED <<laneVars, genVars, mathVars, renderVars>>

CoastNext == CoastStart \/ CoastFrame \/ CoastTimer

CoastInit == LaneIdle /\ GenIdle /\ MathIdle /\ RenderIdle /\ GameInit

SpecCoast == CoastInit /\ [][CoastNext]_vars

\* The jump key alone, with frames of a third of a second and the timers the
\* collected notes start, on tracks whose segments 1..MaxRandomSegments drew
\* any of the four outcomes.
AirKey == KeyDown(" ") /\ UNCHANGED <<laneVars, genVars, mathVars, renderVars>>

AirFrame ==
    /\ tunnelPosition <= MaxScroll * ScrollUnit
    /\ Tick(1)
    /\ UNCHANGED <<laneVars, genVars, mathVars, renderVars>>

AirTimer == \E t \in AllTimers : FireTimer(t) /\ UNCHANGED <<laneVars, genVars, mathVars, renderVars>>

AirNext == AirKey \/ AirFrame \/ AirTimer

AirDraws ==
    {ds \in [1..VISIBLE_SEGMENTS -> {"solid", "gap", "note", "even"}] :
        \A i \in 1..VISIBLE_SEGMENTS :
            ds[i] \in DrawChoices(i - 1) \cup
                      (IF i - 1 \in 1..MaxRandomSegments THEN {"even"} ELSE {})}

AirInit == LaneIdle /\ GenIdle /\ MathIdle /\ RenderIdle /\ \E ds \in AirDraws : GameStart(ds)

SpecAir == AirInit /\ [][AirNext]_vars

\* Frames that may run again before the re-render their setTunnelSegments
\* asked for, with the start, jump, debug and
\* restart keys.
WindowDeltas == {1, 3}

WindowKeys == {" ", "5"}

WindowKey == \E k \in WindowKeys : KeyDown(k) /\ UNCHANGED <<laneVars, genVars, mathVars, renderVars>>

WindowRestart == KeyUp("r") /\ UNCHANGED <<laneVars, genVars, mathVars, renderVars>>

\* A frame; the callback keeps the list of the last render until Render.
WindowFrame ==
    /\ tunnelPosition <= MaxScroll * ScrollUnit
    /\ \E d \in WindowDeltas : Tick(d)
    /\ staleSegments' = IF tunnelSegments' = RenderedSegments THEN {}
                        ELSE {RenderedSegments}
    /\ UNCHANGED <<laneVars, genVars, mathVars>>

\* The re-render: the callback of the next frame sees the current list.
Render ==
    /\ staleSegments # {}
    /\ staleSegments' = {}
    /\ UNCHANGED <<laneVars, genVars, mathVars, gameVars>>

WindowNext == WindowKey \/ WindowRestart \/ WindowFrame \/ Render

WindowInit == LaneIdle /\ GenIdle /\ MathIdle /\ RenderIdle /\ GameInit

SpecWindow == WindowInit /\ [][WindowNext]_vars

\* The boost: the start, jump and boost keys, the restart key, frames of one
\* second and the timers.  The browser runs every pending setTimeout
\* callback that is not cleared; it owes no key event.
BoostKeys == {" ", "ArrowUp"}

BoostKey == \E k \in BoostKeys : KeyDown(k) /\ UNCHANGED <<laneVars, genVars, mathVars, renderVars>>

BoostRestart == KeyUp("r") /\ UNCHANGED <<laneVars, genVars, mathVars, renderVars>>

BoostFrame ==
    /\ tunnelPosition <= MaxScroll * ScrollUnit
    /\ Tick(3)
    /\ UNCHANGED <<laneVars, genVars, mathVars, renderVars>>

BoostTimer(t) == FireTimer(t) /\ UNCHANGED <<laneVars, genVars, mathVars, renderVars>>

BoostTimers == \E t \in AllTimers : BoostTimer(t)

BoostNext == BoostKey \/ BoostRestart \/ BoostFrame \/ BoostTimers

BoostInit == LaneIdle /\ GenIdle /\ MathIdle /\ RenderIdle /\ GameInit

SpecBoost ==
    /\ BoostInit /\ [][BoostNext]_vars
    /\ \A t \in AllTimers : WF_vars(BoostTimer(t))

\* A game that is started and left alone, restarted when it is over, with
\* frames of one or three thirds of a second, on tracks whose segments
\* 1..MaxRandomSegments may also have drawn a key note over a gap.  The
\* browser runs every pending setTimeout callback that is not cleared.
PickupDraws ==
    {ds \in [1..VISIBLE_SEGMENTS -> {"solid", "gap", "note", "bait"}] :
        \A i \in 1..VISIBLE_SEGMENTS :
            ds[i] \in DrawChoices(i - 1) \cup
                      (IF i - 1 \in 1..MaxRandomSegments THEN {"bait"} ELSE {})}

PickupNext == CoastStart \/ CoastFrame \/ BoostRestart \/ BoostTimers

PickupInit ==
    LaneIdle /\ GenIdle /\ MathIdle /\ RenderIdle /\ \E ds \in PickupDraws : GameStart(ds)

SpecPickup ==
    /\ PickupInit /\ [][PickupNext]_vars
    /\ \A t \in AllTimers : WF_vars(BoostTimer(t))

\* A run long enough to pass the first colour change, on the all-solid draws:
\* the start, jump and boost keys, the restart key, frames of one or three
\* thirds of a second and the timers.
LongFrame ==
    /\ tunnelPosition <= MaxLongScroll * ScrollUnit
    /\ \E d \in CoastDeltas : Tick(d)
    /\ UNCHANGED <<laneVars, genVars, mathVars, renderVars>>

LongNext == BoostKey \/ LongFrame \/ BoostRestart \/ BoostTimers

LongInit == LaneIdle /\ GenIdle /\ MathIdle /\ RenderIdle /\ GameIdle

SpecLong == LongInit /\ [][LongNext]_vars

\* The jump key, frames of a third of a second and the timers, as in
\* SpecAir, where the frames of a fall keep coming: the render loop calls
\* the frame callback for as long as the page is shown.
FallFrame ==
    /\ gameState = "playing"
    /\ isFallingThroughGap
    /\ Tick(1)
    /\ UNCHANGED <<laneVars, genVars, mathVars, renderVars>>

FallNext == AirKey \/ AirFrame \/ AirTimer \/ FallFrame

SpecFall == AirInit /\ [][FallNext]_vars /\ WF_vars(FallFrame)

\* The movement keys, the jump key and the restart key, with frames of a
\* third of a second, on the tunnel of SpecControls.
TurnKeys == {"ArrowLeft", "ArrowRight", " "}

TurnKey == \E k \in TurnKeys : KeyDown(k) /\ UNCHANGED <<laneVars, genVars, mathVars, renderVars>>

TurnNext == ControlsFrame \/ TurnKey \/ BoostRestart

SpecTurns == ControlsInit /\ [][TurnNext]_vars

\* The clamp function alone.
MathNext ==
    \/ ClampCall /\ UNCHANGED <<laneVars, genVars, renderVars, gameVars>>
    \/ ClampReturn /\ UNCHANGED <<laneVars, genVars, renderVars, gameVars>>

MathOnlyInit == LaneIdle /\ GenIdle /\ MathInit /\ RenderIdle /\ GameIdle

SpecMath == MathOnlyInit /\ [][MathNext]_vars

\* The coordinate model alone.
LaneNext ==
    \/ LaneSplit /\ UNCHANGED <<genVars, mathVars, renderVars, gameVars>>
    \/ LaneJoin /\ UNCHANGED <<genVars, mathVars, renderVars, gameVars>>

LaneOnlyInit == LaneInit /\ GenIdle /\ MathIdle /\ RenderIdle /\ GameIdle

SpecLane == LaneOnlyInit /\ [][LaneNext]_vars

\* The row generator alone.
GenNext == GenerateRow /\ UNCHANGED <<laneVars, mathVars, renderVars, gameVars>>

GenOnlyInit == LaneIdle /\ GenInit /\ MathIdle /\ RenderIdle /\ GameIdle

SpecGen == GenOnlyInit /\ [][GenNext]_vars

(***************************************************************************)
(* Properties of the coordinate model (SpecLane) and of the row generator  *)
(* (SpecGen).                                                              *)
(***************************************************************************)
FloorTileCount == Cardinality({x \in Lanes : genRow["floor"][x]})

\* C1: every generated row, whatever the draws, the start row and the
\* segment index, has at least 2 of its 5 floor tiles with exists = true.
C1_FloorRowKeepsTwoTiles == genPc = "row" => FloorTileCount >= 2

\* A row outside the patterned rows whose draws made every floor tile a gap:
\* the repair left exactly two tiles.
C1_Witness ==
    /\ genPc = "row"
    /\ genIndex > 0
    /\ JsRem(genStartZ + genZ, 5) # 0
    /\ genHit["floor"] = AllFalse
    /\ FloorTileCount = 2

\* C2: getGlobalLane of the pair getSurfaceAndLocalLane(g) returns is
\* congruent to g modulo 20, for every integer g.
C2_RoundTripCongruent ==
    lanePc = "joined" => (laneBack - laneIn) % TOTAL_LANES = 0

\* A negative lane went round the two functions.
C2_Witness == lanePc = "joined" /\ laneIn = -7 /\ laneBack = 13

\* C3: the local index is reversed on Ceiling and LeftWall: lanes 10, 14, 15
\* and 19 map to (ceiling, 4), (ceiling, 0), (leftWall, 4) and (leftWall, 0).
C3_ReversedBands ==
    lanePc # "in" =>
        /\ laneIn = 10 => laneOut = [surface |-> "ceiling", localLane |-> 4]
        /\ laneIn = 14 => laneOut = [surface |-> "ceiling", localLane |-> 0]
        /\ laneIn = 15 => laneOut = [surface |-> "leftWall", localLane |-> 4]
        /\ laneIn = 19 => laneOut = [surface |-> "leftWall", localLane |-> 0]

C3_Witness ==
    /\ lanePc = "split"
    /\ laneIn = 19
    /\ laneOut = [surface |-> "leftWall", localLane |-> 0]

(***************************************************************************)
(* Properties of the movement keys (SpecControls).                         *)
(***************************************************************************)
\* The surfaces in the order of increasing global lane, and the reverse.
Clockwise == <<"floor", "rightWall", "ceiling", "leftWall", "floor">>

CounterClockwise == <<"floor", "leftWall", "ceiling", "rightWall", "floor">>

\* handleKeyDown acts on a movement key: the game is playing and the player
\* is neither falling, nor moving, nor jumping.
MoveAccepted ==
    gameState = "playing" /\ ~isFallingThroughGap /\ ~isMoving /\ ~isJumping

\* C4: starting on Floor, consecutive edge transitions in the direction of
\* the right key visit Floor, RightWall, Ceiling, LeftWall and Floor in that
\* order, so that the fourth surface change is the first one back to Floor;
\* the left key travels the same ring the other way round.
C4_SameDirectionLoop ==
    (trail[1] = "floor" /\ trailDir # "none") =>
        /\ Len(trail) <= 5
        /\ trail[Len(trail)] = currentSurface
        /\ \A i \in 1..Len(trail) :
              trail[i] = IF trailDir = "right" THEN Clockwise[i]
                         ELSE CounterClockwise[i]

\* The fourth transition of a clockwise run has just brought the player back.
C4_Witness ==
    /\ trailDir = "right"
    /\ trail = Clockwise
    /\ currentSurface = "floor"
    /\ currentLane = 0

C10_WallEdgeMoves ==
    [][(MoveAccepted /\ currentSurface \in {"rightWall", "leftWall"}
          /\ currentSurface' # currentSurface)
       => /\ currentLane = 0 => currentSurface' = "ceiling"
          /\ currentLane = LANES_PER_SURFACE - 1 => currentSurface' = "floor"
          /\ currentLane' = IF currentSurface = "rightWall"
                            THEN LANES_PER_SURFACE - 1 ELSE 0
          /\ KeyDown("ArrowLeft")
                <=> \/ currentSurface = "rightWall" /\ currentLane = 0
                    \/ currentSurface = "leftWall"
                         /\ currentLane = LANES_PER_SURFACE - 1]_vars

\* C11: from Ceiling an accepted left key at local lane 0 puts the player on
\* LeftWall at local lane 0, and an accepted right key at local lane 4 puts
\* the player on RightWall at local lane 0.
C11_CeilingEdgeMoves ==
    [][/\ (MoveAccepted /\ currentSurface = "ceiling" /\ currentLane = 0
             /\ KeyDown("ArrowLeft"))
          => (currentSurface' = "leftWall" /\ currentLane' = 0)
       /\ (MoveAccepted /\ currentSurface = "ceiling"
             /\ currentLane = LANES_PER_SURFACE - 1 /\ KeyDown("ArrowRight"))
          => (currentSurface' = "rightWall" /\ currentLane' = 0)]_vars

\* The left or right key asks for a lane beyond the edge of the surface.
EdgeKey(k) ==
    getSurfaceAndLocalLane(
        NextGlobalLane(getGlobalLane(currentSurface, currentLane),
                       DirectionOf(k))).surface # currentSurface

\* C21: while a lane move is in flight a left or right key that asks for a
\* lane of the same surface changes nothing, and one that asks for a lane
\* beyond the edge of the surface is still accepted and changes the surface.
C21_EdgeMoveInterrupts ==
    (gameState = "playing" /\ isMoving /\ ~isFallingThroughGap /\ ~isJumping)
    => \A k \in ControlKeys :
          IF EdgeKey(k)
          THEN ENABLED (KeyDown(k) /\ currentSurface' # currentSurface)
          ELSE ~ENABLED (KeyDown(k) /\ gameVars' # gameVars)

SurfaceAngle(surface) ==
    CASE surface = "floor" -> 0
      [] surface = "ceiling" -> 2 * QuarterTurn
      [] surface = "leftWall" -> -QuarterTurn
      [] surface = "rightWall" -> QuarterTurn

Canonical ==
    /\ gameState = "playing"
    /\ currentSurface = "floor"
    /\ currentLane = 2
    /\ playerPos = StartPosition
    /\ playerVelocity = [x |-> 0, y |-> 0]
    /\ ~isJumping
    /\ ~isMoving
    /\ ~isFallingThroughGap
    /\ tunnelPosition = 0
    /\ score = 0
    /\ cameraRotation = 0
    /\ targetCameraRotation = 0
    /\ rotationProgress = 0

\* C5: after the restart command in any game-over state every player, game
\* and camera field has its start value, the camera's current rotation too.
C5_RestartIsCanonical ==
    [][(gameState = "gameOver" /\ gameState' = "playing") => Canonical']_vars

\* The game state a timer callback may write (everything but the timer set).
TimerTargets ==
    <<stateVars, speedVars, segmentVars, playerVars, cameraVars, tunnelPosition>>

\* C6: a timer callback scheduled before a restart changes no game state
\* when it runs after that restart.
C6_NoStaleTimerEffect ==
    [][\A t \in timers :
          (t.epoch < restarts /\ FireTimer(t)) => UNCHANGED TimerTargets]_vars

\* C7: the number of active tunnel segments never exceeds
\* VISIBLE_SEGMENTS + 1.
C7_SegmentBound == Len(tunnelSegments) <= VISIBLE_SEGMENTS + 1

\* The tile isPlayerOnTile finds under the player at scroll posZ is a gap.
OverGap(pos, posZ) ==
    /\ MatchingTiles(tunnelSegments, currentSurface, pos, posZ) # {}
    /\ ~FoundTileExists(tunnelSegments, currentSurface, pos, posZ)

\* How far pos lies beyond the surface plane, along gravity.
DepthBelow(surface, pos) ==
    getGravityDirection(surface).x * (pos.x - surfaceLevel(surface))
    + getGravityDirection(surface).y * (pos.y - surfaceLevel(surface))

\* C8: a frame that finds a gap under a player who is not jumping, not
\* invincible and not in debug mode neither clamps nor re-pins the player:
\* the player ends the frame strictly further along gravity, beyond the
\* surface plane.
C8_FallsThroughGap ==
    [][(/\ gameState = "playing"
        /\ tunnelPosition' # tunnelPosition
        /\ ~isJumping /\ ~isInvincible /\ ~isDebugMode
        /\ OverGap(playerPos, tunnelPosition'))
       => /\ DepthBelow(currentSurface, playerPos') > 0
          /\ DepthBelow(currentSurface, playerPos')
                > DepthBelow(currentSurface, playerPos)]_vars

\* A player who was neither jumping nor protected has fallen out of the tunnel
\* below the floor.
C8_Witness ==
    /\ gameState = "gameOver"
    /\ currentSurface = "floor"
    /\ ~isJumping /\ ~isInvincible /\ ~isDebugMode
    /\ DepthBelow("floor", playerPos) > 0


\* C13: in every reachable state where the camera's rotation progress is 0,
\* the camera's current rotation equals the committed target rotation, also
\* after a transition that was re-targeted mid-rotation and after a restart.
C13_SettledCameraAtTarget ==
    rotationProgress = 0 => cameraRotation = targetCameraRotation


\* C14: every tile of every surface and lane in the first 15 rows of the
\* track (absolute rows 0..14) exists, whatever the random draws were.
C14_SafeZoneFifteenRows ==
    \A i \in 1..Len(tunnelSegments) :
        \A z \in 0..(SEGMENT_LENGTH - 1), surface \in Surfaces, x \in Lanes :
            tunnelSegments[i].startZ + z < 15
                => SegmentTile(tunnelSegments[i], surface, x, z)


\* C16: on a frame while the game is Playing the score does not decrease and
\* is the integer part of the scroll distance; no step that leaves the game in
\* GameOver, a frame in particular, changes the score.
C16_ScoreMonotone ==
    [][/\ (gameState = "playing" /\ tunnelPosition' # tunnelPosition)
          => (score' >= score /\ score' = tunnelPosition' \div ScrollUnit)
       /\ (gameState = "gameOver" /\ gameState' = "gameOver")
          => score' = score]_vars

\* The game ended at score 12, and its timers and frames go on.
C16_Witness ==
    /\ gameState = "gameOver"
    /\ score = 12
    /\ tunnelPosition = 12 * ScrollUnit
    /\ restarts = 0

\* C17: the game state changes only from Start to Playing on a key-down, from
\* Playing to GameOver on a frame that leaves the player further than twice
\* the tunnel size from the axis, and from GameOver to Playing on the key-up
\* of the restart key.
C17_GameStateSteps ==
    [][gameState' # gameState
       => \/ /\ gameState = "start" /\ gameState' = "playing"
             /\ \E k \in Keys : KeyDown(k)
          \/ /\ gameState = "playing" /\ gameState' = "gameOver"
             /\ tunnelPosition' # tunnelPosition
             /\ \/ Abs(playerPos'.x) > 2 * TUNNEL_SIZE * PosUnit
                \/ Abs(playerPos'.y) > 2 * TUNNEL_SIZE * PosUnit
          \/ /\ gameState = "gameOver" /\ gameState' = "playing"
             /\ KeyUp("r")]_vars

\* All three steps have been taken: the game was started, lost and restarted.
C17_Witness ==
    /\ gameState = "playing"
    /\ restarts = 1
    /\ tunnelPosition = 0
    /\ score = 0

\* C18: a key-down in the Start state, a movement or jump key included, sets
\* the game state to Playing and leaves the lane, the surface, the target
\* position, the velocity, isJumping and isMoving as they were.
C18_StartKeyOnlyStarts ==
    [][(gameState = "start" /\ \E k \in Keys : KeyDown(k))
       => /\ gameState' = "playing"
          /\ UNCHANGED <<currentLane, currentSurface, targetX, targetY,
                         playerVelocity, isJumping, isMoving>>]_vars

\* The game has just been started and nothing else has happened.
C18_Witness ==
    /\ gameState = "playing"
    /\ restarts = 0
    /\ tunnelPosition = 0
    /\ currentSurface = "floor"
    /\ currentLane = 2
    /\ targetX = getLanePosition(2, LANE_COUNT)
    /\ playerVelocity = [x |-> 0, y |-> 0]
    /\ ~isJumping
    /\ ~isMoving

\* C19, as amended: during Playing a jump key pressed while the player is
\* neither jumping, nor falling through a gap, nor in a move that is in flight
\* is accepted: isJumping becomes true, the velocity against the gravity of
\* the current surface becomes JUMP_FORCE and the velocity across it zero.
\* Pressed in any other Playing state, the jump key changes nothing.
C19_JumpWhenFree ==
    gameState = "playing" =>
        IF ~isJumping /\ ~isFallingThroughGap /\ ~isMoving
        THEN ENABLED (/\ KeyDown(" ")
                      /\ isJumping'
                      /\ playerVelocity' =
                            [x |-> -getGravityDirection(currentSurface).x
                                      * JUMP_FORCE * 3,
                             y |-> -getGravityDirection(currentSurface).y
                                      * JUMP_FORCE * 3]
                      /\ UNCHANGED <<currentLane, currentSurface, playerPos,
                                     isMoving, targetX, targetY>>)
        ELSE ~ENABLED (KeyDown(" ") /\ gameVars' # gameVars)

\* A jump from the left wall has just been accepted: the velocity points away
\* from the wall.
C19_Witness ==
    /\ gameState = "playing"
    /\ currentSurface = "leftWall"
    /\ isJumping
    /\ ~isMoving
    /\ playerVelocity = [x |-> JUMP_FORCE * 3, y |-> 0]

\* C19: during Playing a jump key pressed while the player is not jumping is
\* accepted, setting isJumping and the velocity against the gravity of the
\* current surface to JUMP_FORCE; pressed while the player is jumping it
\* changes nothing.
C19_JumpAccepted ==
    gameState = "playing" =>
        IF ~isJumping
        THEN ENABLED (/\ KeyDown(" ")
                      /\ isJumping'
                      /\ playerVelocity' = JumpVelocity(currentSurface))
        ELSE ~ENABLED (KeyDown(" ") /\ gameVars' # gameVars)

\* C20: a left or right key handled at a lane that is not an edge lane, while
\* the game is Playing, the player is not falling through a gap and no move
\* is in flight, keeps the surface, changes the local lane by exactly one,
\* sets the in-plane target coordinate (x on floor and ceiling, y on the
\* walls) to the centre of the new lane and sets isMoving, whether or not the
\* player is jumping.
C20_InteriorLaneMove ==
    [][(/\ ControlsReached
        /\ currentLane \in 1..(LANES_PER_SURFACE - 2)
        /\ (KeyDown("ArrowLeft") \/ KeyDown("ArrowRight")))
       => /\ currentSurface' = currentSurface
          /\ Abs(currentLane' - currentLane) = 1
          /\ isMoving'
          /\ IF currentSurface \in {"floor", "ceiling"}
             THEN targetX' = getLanePosition(currentLane', LANE_COUNT)
                  /\ targetY' = targetY
             ELSE targetY' = getLanePosition(currentLane', LANE_COUNT)
                  /\ targetX' = targetX
          /\ UNCHANGED <<playerPos, playerVelocity, isJumping>>]_vars

\* A lane move on the floor begun in mid-jump, from lane 2 to lane 3.
C20_Witness ==
    /\ gameState = "playing"
    /\ currentSurface = "floor"
    /\ currentLane = 3
    /\ isMoving
    /\ isJumping
    /\ targetX = getLanePosition(3, LANE_COUNT)
    /\ playerPos.x = getLanePosition(2, LANE_COUNT)

\* C24: no frame that starts with invincibility active newly sets
\* isFallingThroughGap, whatever tiles are missing under the player.
C24_InvincibleNeverFalls ==
    [][(gameState = "playing" /\ isInvincible /\ ~isFallingThroughGap
          /\ tunnelPosition' # tunnelPosition)
       => ~isFallingThroughGap']_vars

\* An invincible player rests on the surface plane over a missing tile.
C24_Witness ==
    /\ gameState = "playing"
    /\ isInvincible
    /\ ~isDebugMode
    /\ ~isFallingThroughGap
    /\ NearSurface(currentSurface, playerPos)
    /\ OverGap(playerPos, tunnelPosition)

(***************************************************************************)
(* Properties of a game left alone after its start (SpecCoast).            *)
(***************************************************************************)
\* Lane 2 of the floor has a tile in every row up to row 21 of the segments
\* in the window.
LaneTwoClear ==
    \A i \in 1..Len(tunnelSegments) :
        \A z \in 0..(SEGMENT_LENGTH - 1) :
            tunnelSegments[i].startZ + z <= 21
                => SegmentTile(tunnelSegments[i], "floor", 2, z)

C22_RecoversOverTile ==
    [][(/\ gameState = "playing"
        /\ isFallingThroughGap
        /\ tunnelPosition' # tunnelPosition
        /\ gameState' = "playing"
        /\ FoundTileExists(tunnelSegments, currentSurface, playerPos,
                           tunnelPosition'))
       => ~isFallingThroughGap']_vars


\* C23: no frame in which the player is jumping newly sets
\* isFallingThroughGap, whatever tiles are below.
C23_JumpSuppressesFalling ==
    [][(gameState = "playing" /\ isJumping /\ ~isFallingThroughGap)
       => ~isFallingThroughGap']_vars


(***************************************************************************)
(* Properties of clamp (SpecMath).                                         *)
(***************************************************************************)
\* C26: clamp(value, min, max) with min <= max returns value when value lies
\* in min..max, min when value < min and max when value > max.
C26_ClampCases ==
    (clampPc = "out" /\ clampMin <= clampMax) =>
        /\ (clampMin <= clampValue /\ clampValue <= clampMax)
              => clampOut = clampValue
        /\ clampValue < clampMin => clampOut = clampMin
        /\ clampValue > clampMax => clampOut = clampMax

\* clamp(3, -2, 1) has returned 1.
C26_Witness ==
    /\ clampPc = "out"
    /\ clampValue = 3
    /\ clampMin = -2
    /\ clampMax = 1
    /\ clampOut = 1


(***************************************************************************)
(* The frozen world                                                        *)
(***************************************************************************)

\* What the frame callback simulates: scroll, score, the player, the surface
\* and lane, the flags, the camera and the segment window.
simulation ==
    <<tunnelPosition, score, playerPos, playerVelocity, currentSurface,
      currentLane, isJumping, isMoving, isFallingThroughGap, isInvincible,
      cameraRotation, targetCameraRotation, rotationProgress,
      tunnelSegments, nextSegmentZ, generatedSegmentsCount>>

\* C27: a frame in the Start or GameOver state changes nothing of the
\* simulation: whatever its delta, no frame enabled in such a state leads to
\* a state whose scroll distance, score, player position or velocity,
\* surface, lane, flags, camera rotation or segment window differ.
C27_FrozenWorld ==
    gameState # "playing" => ~ENABLED (Frame /\ simulation' # simulation)

\* Frames run in a finished game whose tunnel has scrolled and whose player
\* had left the floor lane it started in.
C27_Witness ==
    /\ gameState = "gameOver"
    /\ tunnelPosition > 0
    /\ OutOfBounds(playerPos)
    /\ ENABLED Frame


(***************************************************************************)
(* The segment window under late re-renders                                *)
(***************************************************************************)

\* C28: the active segment list is ordered and contiguous, each segment
\* starting where the one before it ends, and no startZ is generated twice:
\* every segment starts at SEGMENT_LENGTH times its own generation number,
\* below the start kept for the next segment, also when frames have run
\* against a rendered list that a pending re-render has not yet replaced.
C28_ContiguousWindow ==
    /\ \A i \in 1..(Len(tunnelSegments) - 1) :
           tunnelSegments[i + 1].startZ = tunnelSegments[i].endZ
    /\ \A i \in 1..Len(tunnelSegments) :
           /\ tunnelSegments[i].startZ
                 = tunnelSegments[i].segmentIndex * SEGMENT_LENGTH
           /\ tunnelSegments[i].endZ <= nextSegmentZ
    /\ nextSegmentZ = generatedSegmentsCount * SEGMENT_LENGTH

\* Two frames in a row have each added a segment behind the same rendered
\* list, which still ends two segments short of the current one.
C28_Witness ==
    /\ staleSegments # {}
    /\ Len(tunnelSegments) >= Len(RenderedSegments) + 2
    /\ tunnelSegments[Len(tunnelSegments)].endZ
          = RenderedSegments[Len(RenderedSegments)].endZ + 2 * SEGMENT_LENGTH


(***************************************************************************)
(* Input while the camera turns                                            *)
(***************************************************************************)

\* C29: while the rotation progress is above 0 no key-down changes the lane
\* or the surface: from no reachable state with rotationProgress > 0 does a
\* movement key lead to a state with another currentLane or currentSurface.
C29_NoMoveWhileTurning ==
    rotationProgress > 0 =>
        \A k \in ControlKeys :
            ~ENABLED (KeyDown(k)
                      /\ <<currentLane, currentSurface>>'
                            # <<currentLane, currentSurface>>)


(***************************************************************************)
(* The boost                                                               *)
(***************************************************************************)

\* C30: every boost is temporary: whenever isBoostActive is true, a later
\* state has isBoostActive false and canBoost true, in every execution in
\* which every pending timer runs.
C30_BoostEnds == isBoostActive ~> (~isBoostActive /\ canBoost)


(***************************************************************************)
(* The invincibility window                                                *)
(***************************************************************************)

C32_RestartResetsSpeed ==
    [][(gameState = "gameOver" /\ gameState' = "playing")
       => /\ currentSpeed' = INITIAL_MOVE_SPEED
          /\ lastColorIndex' = 0
          /\ ~isBoostActive'
          /\ canBoost']_vars


(***************************************************************************)
(* The patterned rows                                                      *)
(***************************************************************************)

\* C33: on a generated row outside the start safe zone whose absolute index
\* is a multiple of 15 the floor tiles are exactly lanes 1, 2 and 3.  The
\* rows looked at are those of a segment that starts where its generation
\* number puts it.
C33_FifteenthRowLanes ==
    (/\ genPc = "row"
     /\ genIndex > 0
     /\ genStartZ = genIndex * SEGMENT_LENGTH
     /\ JsRem(genStartZ + genZ, 15) = 0)
    => \A x \in Lanes : genRow["floor"][x] <=> x \in {1, 2, 3}


(***************************************************************************)
(* Tile boundaries                                                         *)
(***************************************************************************)

\* The in-plane coordinate of pos is half a tile from a lane centre.
OnLaneBoundary(surface, pos) ==
    \E x \in Lanes :
        2 * Abs(getLanePosition(x, LANE_COUNT) - InPlane(surface, pos)) = TILE_SIZE

\* The scroll-adjusted z of pos is half a tile from the row centres.
OnRowBoundary(pos, posZ) ==
    JsRem(2 * Abs(posZ * (PosUnit \div ScrollUnit) - pos.z), 2 * TILE_SIZE)
        = TILE_SIZE

\* Positions on a surface, a quarter of a tile apart across the lanes, and
\* the scroll distances of the next row from the current one on.
ProbePositions(surface) ==
    {PositionOnSurface(surface, [x |-> c * (PosUnit \div 4),
                                 y |-> c * (PosUnit \div 4), z |-> 0]) :
        c \in -10..10}

ProbeScrolls == {tunnelPosition + k : k \in 0..(ScrollUnit - 1)}

\* C34: the comparisons of isPlayerOnTile are strict.  With the segments of
\* any reachable state, a position whose in-plane coordinate or whose
\* scroll-adjusted z is exactly half a tile from the tile centres matches no
\* tile and the search reports no tile, whatever tiles exist; and when the
\* player stands so, neither invincible nor in debug mode, the query
\* returns false.
C34_BoundaryIsOffTile ==
    /\ \A surface \in Surfaces, posZ \in ProbeScrolls :
          \A pos \in ProbePositions(surface) :
             (OnLaneBoundary(surface, pos) \/ OnRowBoundary(pos, posZ))
             => /\ MatchingTiles(tunnelSegments, surface, pos, posZ) = {}
                /\ ~FoundTileExists(tunnelSegments, surface, pos, posZ)
    /\ (/\ ~isDebugMode /\ ~isInvincible
        /\ \/ OnLaneBoundary(currentSurface, playerPos)
           \/ OnRowBoundary(playerPos, tunnelPosition))
       => ~isPlayerOnTile(playerPos, tunnelPosition)

\* A frame has ended exactly between two rows whose tiles under the player
\* both exist, and has marked the player as falling.
C34_Witness ==
    /\ gameState = "playing"
    /\ ~isDebugMode /\ ~isInvincible
    /\ OnRowBoundary(playerPos, tunnelPosition)
    /\ FoundTileExists(tunnelSegments, currentSurface, playerPos,
                       tunnelPosition - ScrollUnit \div 2)
    /\ FoundTileExists(tunnelSegments, currentSurface, playerPos,
                       tunnelPosition + ScrollUnit \div 2)
    /\ isFallingThroughGap


(***************************************************************************)
(* Moves across an edge during a jump                                      *)
(***************************************************************************)

\* C35: while the player is jumping a movement key that asks for a lane of
\* another surface changes nothing: no key-down of such a key leads to a
\* state with another surface, lane, target position, camera target
\* rotation, rotation progress, velocity or isMoving.
C35_NoTransitionInJump ==
    isJumping =>
        \A k \in ControlKeys :
            EdgeKey(k) =>
                ~ENABLED (KeyDown(k)
                          /\ <<currentSurface, currentLane, targetX, targetY,
                                targetCameraRotation, rotationProgress,
                                playerVelocity, isMoving>>'
                             # <<currentSurface, currentLane, targetX, targetY,
                                 targetCameraRotation, rotationProgress,
                                 playerVelocity, isMoving>>)

\* The player is in the air over an edge lane, with the controls reached
\* and a key at hand that asks for the neighbouring surface.
C35_Witness ==
    /\ ControlsReached
    /\ isJumping
    /\ playerVelocity # [x |-> 0, y |-> 0]
    /\ \E k \in ControlKeys : EdgeKey(k)


(***************************************************************************)
(* The end of a fall                                                       *)
(***************************************************************************)

\* C36: falling through a gap ends the run: whenever the player is marked
\* as falling while neither invincible nor in debug mode, a later state has
\* the game over, unless a key note is picked up first (which makes the
\* player invincible), in every execution in which the frames of a fall
\* keep coming.
C36_FallEndsRun ==
    (gameState = "playing" /\ isFallingThroughGap
        /\ ~isInvincible /\ ~isDebugMode)
    ~> (gameState = "gameOver" \/ isInvincible)


\* A mortal player is in the middle of a fall, below the surface and still
\* inside the bounds.
C36_Witness ==
    /\ gameState = "playing"
    /\ isFallingThroughGap
    /\ ~isInvincible /\ ~isDebugMode
    /\ DepthBelow(currentSurface, playerPos) > PosUnit
    /\ ~OutOfBounds(playerPos)


(***************************************************************************)
(* The player and its lane                                                 *)
(***************************************************************************)

C38_TrackUnderPlayer ==
    gameState = "playing" =>
        \E i \in 1..Len(tunnelSegments) :
            /\ tunnelSegments[i].startZ * ScrollUnit <= tunnelPosition
            /\ tunnelPosition < tunnelSegments[i].endZ * ScrollUnit

\* C39: in every reachable state the camera target about the scroll axis is
\* congruent, modulo a full turn, to the fixed angle of the current surface
\* (Floor 0, RightWall +90, Ceiling 180, LeftWall -90 degrees), whatever
\* moves, blocked moves, jumps and restarts came before.
C39_TargetMatchesSurface ==
    (targetCameraRotation - SurfaceAngle(currentSurface))
        % (4 * QuarterTurn) = 0

\* After a restart the player has left the floor again and stands on a
\* surface whose target is a full turn away from the surface's own angle,
\* as on the ceiling reached over the left wall.
C39_Witness ==
    /\ restarts > 0
    /\ gameState = "playing"
    /\ currentSurface # "floor"
    /\ targetCameraRotation # SurfaceAngle(currentSurface)

====
